---- MODULE Spec2Model ----
(***************************************************************************)
(* Model of the Bird/Plane/Superman classifier service (src/main.py).      *)
(*                                                                         *)
(* The state is the module-level `classifier` global, the file at the      *)
(* model's local path, the position of the lifespan context manager, the   *)
(* predict request suspended at `await file.read()`, and a record of what  *)
(* the last handler call and the last download call did.                   *)
(*                                                                         *)
(* Probabilities and thresholds are fixed-point: an integer v stands for   *)
(* the float v / Total.                                                    *)
(***************************************************************************)
EXTENDS Integers, FiniteSets, Sequences, TLC

\* ----------------------------------------------------------------- bounds

\* Probabilities are the multiples of 1/Grain.
Grain == 5
\* Processes (the first start and the restarts after it) that are followed.
MaxProcesses == 2

\* -------------------------------------------------------------- constants

\* The fixed-point value of probability 1.0.
Total == 10 * Grain

\* LabelSet in its priority order (bird > plane > superman > other).
Labels == <<"bird", "plane", "superman", "other">>

LabelSet == {Labels[i] : i \in 1..Len(Labels)}

ProbValues == {10 * k : k \in 0..Grain}

\* A ProbabilityDistribution: every label once, the values summing to 1.0.
Distributions ==
    {d \in [LabelSet -> ProbValues] :
        d["bird"] + d["plane"] + d["superman"] + d["other"] = Total}

\* main.py:182-188
allowed_content_types ==
    {"image/jpeg", "image/png", "image/gif", "image/webp", "image/jpg"}

\* main.py:201
max_size == 10 * 1024 * 1024

\* main.py:72
model_local_path == "models/best-model.pth"

\* main.py:73, the default of CONFIDENCE_THRESHOLD ("0.7")
DefaultThreshold == (7 * Total) \div 10

\* ------------------------------------------------------------ input sets

\* Declared content types a client sends ("none": the part has no type).
ContentTypes == {"image/jpeg", "application/pdf", "none"}

Sizes == {0, max_size, max_size + 1}

\* What PIL makes of the bytes: "bad_header" is not identified by Image.open,
\* "truncated" has a readable header and pixel data that stops short.
ImageKinds == {"valid", "bad_header", "truncated"}

ImageModes == {"RGB", "RGBA"}

Requests ==
    {r \in [content_type : ContentTypes, size : Sizes,
            kind : ImageKinds, mode : ImageModes] :
        /\ r.size = 0 => r.kind = "bad_header"
        /\ r.kind = "bad_header" => r.mode = "RGB"}

\* The values CONFIDENCE_THRESHOLD is set to in the environment.
ThresholdValues == {0, 10 * (Grain \div 2), Total}

ThresholdEnvs ==
    {[kind |-> "unset", value |-> 0], [kind |-> "garbage", value |-> 0]}
    \cup {[kind |-> "number", value |-> v] : v \in ThresholdValues}

\* How a fetch from the bucket ends.
FetchOutcomes ==
    {"ok", "makedirs_failed", "client_failed",
     "download_failed_clean", "download_failed_partial"}

\* How constructing the classifier from a complete file ends.
LoadOutcomes == {"ok", "incompatible"}

\* What the scorer returns for a decoded image.
ScorerOutcomes ==
    {[ok |-> FALSE, probs |-> [l \in LabelSet |-> 0]]}
    \cup {[ok |-> TRUE, probs |-> d] : d \in Distributions}

\* ----------------------------------------------------------------- state

VARIABLES
    host,         \* "uvicorn": served by uvicorn.run; "harness": handlers called directly
    phase,        \* where the lifespan context manager of this process is
    classifier,   \* the global classifier (None until the lifespan assigns it)
    fs,           \* the file at model_local_path
    ensureCalls,  \* calls of download_model_from_gcs so far
    fetches,      \* calls that reached blob.download_to_filename
    returnedOK,   \* some call of download_model_from_gcs returned normally
    lastEnsure,   \* what the last call of download_model_from_gcs did
    boot,         \* what the lifespan of this process did
    inflight,     \* the predict request suspended at await file.read()
    last          \* what the last handler call did

vars ==
    <<host, phase, classifier, fs, ensureCalls, fetches, returnedOK,
      lastEnsure, boot, inflight, last>>

\* main.py:24
None == [loaded |-> FALSE, model_path |-> "", confidence_threshold |-> 0, pid |-> 0]

\* ------------------------------------------------------------ ArtifactCache

\* Mutant: the os.path.exists check (37-40) is gone, every call fetches.
download_model_from_gcs_AlwaysFetches(file, outcome) ==
    CASE outcome \in {"makedirs_failed", "client_failed"} ->
           [file |-> file, raised |-> TRUE, network |-> FALSE]
      [] outcome = "download_failed_clean" ->
           [file |-> "absent", raised |-> TRUE, network |-> TRUE]
      [] outcome = "download_failed_partial" ->
           [file |-> "partial", raised |-> TRUE, network |-> TRUE]
      [] OTHER ->
           [file |-> "complete", raised |-> FALSE, network |-> TRUE]

\* Mutant: the except block (59-61) logs and does not re-raise.
download_model_from_gcs_Swallows(file, outcome) ==
    IF file # "absent"
    THEN [file |-> file, raised |-> FALSE, network |-> FALSE]
    ELSE CASE outcome \in {"makedirs_failed", "client_failed"} ->
                [file |-> "absent", raised |-> FALSE, network |-> FALSE]
           [] outcome = "download_failed_clean" ->
                [file |-> "absent", raised |-> FALSE, network |-> TRUE]
           [] outcome = "download_failed_partial" ->
                [file |-> "partial", raised |-> FALSE, network |-> TRUE]
           [] OTHER ->
                [file |-> "complete", raised |-> FALSE, network |-> TRUE]

\* download_model_from_gcs on a destination whose file is `file`, the fetch
\* (if one is made) ending as `outcome`. network: blob.download_to_filename
\* was called. The except block (59-61) prints and re-raises: what the failed
\* download left at the destination stays there.
download_model_from_gcs(file, outcome) ==
    IF file # "absent"
    THEN [file |-> file, raised |-> FALSE, network |-> FALSE]
    ELSE CASE outcome = "makedirs_failed" ->
                [file |-> "absent", raised |-> TRUE, network |-> FALSE]
           [] outcome = "client_failed" ->
                [file |-> "absent", raised |-> TRUE, network |-> FALSE]
           [] outcome = "download_failed_clean" ->
                [file |-> "absent", raised |-> TRUE, network |-> TRUE]
           [] outcome = "download_failed_partial" ->
                [file |-> "partial", raised |-> TRUE, network |-> TRUE]
           [] OTHER ->
                [file |-> "complete", raised |-> FALSE, network |-> TRUE]

\* ------------------------------------------------------------------ Scorer

\* Scorer.load: the constructor of BirdPlaneSupermanClassifier. It fails when
\* the file is absent, corrupt (a partial download) or incompatible.
BirdPlaneSupermanClassifier(file, threshold, outcome, pid) ==
    IF file = "complete" /\ outcome = "ok"
    THEN [raised |-> FALSE,
          handle |-> [loaded |-> TRUE, model_path |-> model_local_path,
                      confidence_threshold |-> threshold, pid |-> pid]]
    ELSE [raised |-> TRUE, handle |-> None]

\* ---------------------------------------------------------------- lifespan

NotCalled == [file |-> "absent", raised |-> FALSE, network |-> FALSE]

\* float(os.getenv("CONFIDENCE_THRESHOLD", "0.7")): raises on text that is no number.
ConfigRaises(env) == env.kind = "garbage"

ConfigThreshold(env) == IF env.kind = "unset" THEN DefaultThreshold ELSE env.value

\* Mutant: the except block of the download (79-81) does not re-raise, the
\* lifespan goes on to the model load.
LifespanStartup_LoadsAfterFailedFetch(c, file, env, fetchOutcome, loadOutcome, pid) ==
    IF ConfigRaises(env)
    THEN [classifier |-> c, file |-> file, yielded |-> FALSE,
          called |-> FALSE, dl |-> NotCalled,
          config |-> "raised", ensure |-> "none", load |-> "none", assigns |-> 0]
    ELSE LET dl == download_model_from_gcs(file, fetchOutcome)
             ld == BirdPlaneSupermanClassifier(
                       dl.file, ConfigThreshold(env), loadOutcome, pid)
         IN
         IF ld.raised
         THEN [classifier |-> c, file |-> dl.file, yielded |-> FALSE,
               called |-> TRUE, dl |-> dl, config |-> "ok",
               ensure |-> IF dl.raised THEN "raised" ELSE "ok",
               load |-> "raised", assigns |-> 0]
         ELSE [classifier |-> ld.handle, file |-> dl.file, yielded |-> TRUE,
               called |-> TRUE, dl |-> dl, config |-> "ok",
               ensure |-> IF dl.raised THEN "raised" ELSE "ok",
               load |-> "ok", assigns |-> 1]

\* Mutant: the except block of the model load (91-93) does not re-raise, the
\* lifespan yields with the global unset.
LifespanStartup_YieldsAfterFailedLoad(c, file, env, fetchOutcome, loadOutcome, pid) ==
    IF ConfigRaises(env)
    THEN [classifier |-> c, file |-> file, yielded |-> FALSE,
          called |-> FALSE, dl |-> NotCalled,
          config |-> "raised", ensure |-> "none", load |-> "none", assigns |-> 0]
    ELSE LET dl == download_model_from_gcs(file, fetchOutcome) IN
         IF dl.raised
         THEN [classifier |-> c, file |-> dl.file, yielded |-> FALSE,
               called |-> TRUE, dl |-> dl,
               config |-> "ok", ensure |-> "raised", load |-> "none", assigns |-> 0]
         ELSE LET ld == BirdPlaneSupermanClassifier(
                            dl.file, ConfigThreshold(env), loadOutcome, pid) IN
              IF ld.raised
              THEN [classifier |-> c, file |-> dl.file, yielded |-> TRUE,
                    called |-> TRUE, dl |-> dl,
                    config |-> "ok", ensure |-> "ok", load |-> "raised", assigns |-> 0]
              ELSE [classifier |-> ld.handle, file |-> dl.file, yielded |-> TRUE,
                    called |-> TRUE, dl |-> dl,
                    config |-> "ok", ensure |-> "ok", load |-> "ok", assigns |-> 1]

\* The lifespan up to its yield, in a process whose global is `c`: the
\* configuration, the download, the model load, each only if the one before
\* it did not raise. yielded: the lifespan reached line 95.
LifespanStartup(c, file, env, fetchOutcome, loadOutcome, pid) ==
    IF ConfigRaises(env)
    THEN [classifier |-> c, file |-> file, yielded |-> FALSE,
          called |-> FALSE, dl |-> NotCalled,
          config |-> "raised", ensure |-> "none", load |-> "none", assigns |-> 0]
    ELSE LET dl == download_model_from_gcs(file, fetchOutcome) IN
         IF dl.raised
         THEN [classifier |-> c, file |-> dl.file, yielded |-> FALSE,
               called |-> TRUE, dl |-> dl,
               config |-> "ok", ensure |-> "raised", load |-> "none", assigns |-> 0]
         ELSE LET ld == BirdPlaneSupermanClassifier(
                            dl.file, ConfigThreshold(env), loadOutcome, pid) IN
              IF ld.raised
              THEN [classifier |-> c, file |-> dl.file, yielded |-> FALSE,
                    called |-> TRUE, dl |-> dl,
                    config |-> "ok", ensure |-> "ok", load |-> "raised", assigns |-> 0]
              ELSE [classifier |-> ld.handle, file |-> dl.file, yielded |-> TRUE,
                    called |-> TRUE, dl |-> dl,
                    config |-> "ok", ensure |-> "ok", load |-> "ok", assigns |-> 1]

\* ---------------------------------------------------------- DecisionPolicy

MaxProb(probs) ==
    CHOOSE m \in {probs[l] : l \in LabelSet} : \A l \in LabelSet : probs[l] <= m

\* The label of maximum probability, ties going to the first in Labels.
ArgMax(probs) ==
    Labels[CHOOSE i \in 1..Len(Labels) :
              /\ probs[Labels[i]] = MaxProb(probs)
              /\ \A j \in 1..(i - 1) : probs[Labels[j]] < MaxProb(probs)]

\* round(v, 4) of the float v / Total, in units of 0.0001.
Round4(v) == (2 * 10000 * v + Total) \div (2 * Total)

\* ------------------------------------------------------------------- image

\* Image.open(io.BytesIO(contents)): reads the header only; the pixel data is
\* decoded when it is first needed.
ImageOpen(req) ==
    [raised |-> req.kind = "bad_header", kind |-> req.kind,
     mode |-> req.mode, decoded |-> FALSE]

\* if image.mode != 'RGB': image = image.convert('RGB'), which decodes the pixels.
EnsureRGB(image) ==
    IF image.mode # "RGB"
    THEN [raised |-> image.kind = "truncated", kind |-> image.kind,
          mode |-> "RGB", decoded |-> TRUE]
    ELSE image

\* classifier.predict_from_image(image): normalize (which decodes the pixels
\* if nothing has yet), score, decide.
predict_from_image(c, image, scorer) ==
    IF (~image.decoded /\ image.kind = "truncated") \/ ~scorer.ok
    THEN [raised |-> TRUE, pred_class |-> "", confidence |-> 0,
          probabilities |-> scorer.probs]
    ELSE [raised |-> FALSE, pred_class |-> ArgMax(scorer.probs),
          confidence |-> MaxProb(scorer.probs), probabilities |-> scorer.probs]

\* ---------------------------------------------------------------- handlers

NoResult ==
    [predicted_class |-> "", confidence |-> 0,
     probabilities |-> [l \in LabelSet |-> 0], threshold_applied |-> FALSE]

NoRequest == [content_type |-> "none", size |-> 0, kind |-> "bad_header", mode |-> "RGB"]

NoProbs == [l \in LabelSet |-> 0]

\* What a handler call did: the request, whether the classifier was set when
\* the handler was entered, whether Image.open and predict_from_image were
\* called, what the scorer returned, and the response.
Obs(endpoint, req, loaded, opened, inferred, probs, threshold, st, detail, result) ==
    [endpoint |-> endpoint, req |-> req, loaded |-> loaded, opened |-> opened,
     inferred |-> inferred, probs |-> probs, threshold |-> threshold,
     status |-> st, detail |-> detail, result |-> result]

NoObs == Obs("none", NoRequest, FALSE, FALSE, FALSE, NoProbs, 0, 0, "", NoResult)

Idle == [active |-> FALSE, req |-> NoRequest]

\* main.py:190
ContentTypeAllowed(content_type) == content_type \in allowed_content_types

\* main.py:202
TooLarge(size) == size > max_size

\* Mutant: the comparison with the threshold is not strict.
ThresholdApplied_Inclusive(max_prob, threshold, pred_class) ==
    max_prob <= threshold /\ pred_class = "other"

\* main.py:229
ThresholdApplied(max_prob, threshold, pred_class) ==
    max_prob < threshold /\ pred_class = "other"

\* Mutant: the content type is validated before the classifier is.
PredictChecks_TypeFirst(c, req) ==
    IF ~ContentTypeAllowed(req.content_type) THEN "bad_type"
    ELSE IF c = None THEN "unloaded"
    ELSE "read"

\* predict before its await (168-194): "unloaded" and "bad_type" answer at
\* once, "read" goes on to await file.read().
PredictChecks(c, req) ==
    IF c = None THEN "unloaded"
    ELSE IF ~ContentTypeAllowed(req.content_type) THEN "bad_type"
    ELSE "read"

\* Mutant: no `except HTTPException: raise` (215-216); the generic handler
\* (217-221) rewrites the exception.
ReadBlockHTTPException_Rewritten(st, detail) ==
    [status |-> 400, detail |-> "Invalid image file"]

\* What the first try block (197-221) raises out of the handler when an
\* HTTPException is raised inside it: `except HTTPException: raise`.
ReadBlockHTTPException(st, detail) == [status |-> st, detail |-> detail]

\* predict from the return of file.read() on (199-242), the global being `c`.
PredictBody(c, req, scorer) ==
    IF TooLarge(req.size)
    THEN LET e == ReadBlockHTTPException(413, "File too large") IN
         Obs("predict", req, TRUE, FALSE, FALSE, NoProbs, c.confidence_threshold,
             e.status, e.detail, NoResult)
    ELSE LET opened == ImageOpen(req)
             image  == IF opened.raised THEN opened ELSE EnsureRGB(opened)
         IN
         IF image.raised
         THEN Obs("predict", req, TRUE, TRUE, FALSE, NoProbs, c.confidence_threshold,
                  400, "Invalid image file", NoResult)
         ELSE IF c = None
         THEN Obs("predict", req, TRUE, TRUE, FALSE, NoProbs, c.confidence_threshold,
                  500, "Prediction failed", NoResult)
         ELSE LET p == predict_from_image(c, image, scorer) IN
              IF p.raised
              THEN Obs("predict", req, TRUE, TRUE, TRUE, NoProbs, c.confidence_threshold,
                       500, "Prediction failed", NoResult)
              ELSE Obs("predict", req, TRUE, TRUE, TRUE, p.probabilities,
                       c.confidence_threshold, 200, "",
                       [predicted_class |-> p.pred_class,
                        confidence |-> Round4(p.confidence),
                        probabilities |->
                            [l \in LabelSet |-> Round4(p.probabilities[l])],
                        threshold_applied |->
                            ThresholdApplied(MaxProb(p.probabilities),
                                             c.confidence_threshold, p.pred_class)])

\* ------------------------------------------------------------------- Init

NoEnsure ==
    [called |-> FALSE, nth |-> 0, before |-> "absent", after |-> "absent",
     network |-> FALSE, raised |-> FALSE, priorOK |-> FALSE]

NewBoot(pid) ==
    [pid |-> pid, runs |-> 0, config |-> "none", ensure |-> "none",
     load |-> "none", assigns |-> 0]

\* A new container has no model file, or has it baked into the image.
InitWith(h) ==
    /\ host = h
    /\ phase = "not_started"
    /\ classifier = None
    /\ fs \in {"absent", "complete"}
    /\ ensureCalls = 0
    /\ fetches = 0
    /\ returnedOK = FALSE
    /\ lastEnsure = NoEnsure
    /\ boot = NewBoot(1)
    /\ inflight = Idle
    /\ last = NoObs

\* The service as its entry point runs it: uvicorn.run("main:app").
Init == InitWith("uvicorn")

\* The app driven without the lifespan protocol ordering the calls: a test
\* client that sends requests before (or without) entering the lifespan.
InitHarness == InitWith("harness")

\* ---------------------------------------------------------------- actions

\* uvicorn accepts connections only between a completed startup and the
\* shutdown; a harness calls the handlers whenever it likes.
RequestsAccepted == host = "harness" \/ phase = "serving"

\* The lifespan from its entry to its yield or its raise (65-95). It holds no
\* await: nothing else runs on the event loop meanwhile.
lifespan(env, fetchOutcome, loadOutcome) ==
    /\ phase = "not_started"
    /\ LET r == LifespanStartup(classifier, fs, env, fetchOutcome, loadOutcome,
                                boot.pid)
       IN
       /\ classifier' = r.classifier
       /\ fs' = r.file
       /\ phase' = IF r.yielded THEN "serving" ELSE "failed"
       /\ boot' = [pid |-> boot.pid, runs |-> boot.runs + 1, config |-> r.config,
                   ensure |-> r.ensure, load |-> r.load,
                   assigns |-> boot.assigns + r.assigns]
       /\ ensureCalls' = IF r.called THEN ensureCalls + 1 ELSE ensureCalls
       /\ fetches' = IF r.dl.network THEN fetches + 1 ELSE fetches
       /\ returnedOK' = (returnedOK \/ (r.called /\ ~r.dl.raised))
       /\ lastEnsure' =
            IF r.called
            THEN [called |-> TRUE, nth |-> ensureCalls + 1, before |-> fs,
                  after |-> r.dl.file, network |-> r.dl.network,
                  raised |-> r.dl.raised, priorOK |-> returnedOK]
            ELSE lastEnsure
    /\ UNCHANGED <<host, inflight, last>>

\* The lifespan after its yield (97-98), once the requests in flight are done.
Shutdown ==
    /\ phase = "serving"
    /\ ~inflight.active
    /\ phase' = "stopped"
    /\ UNCHANGED <<host, classifier, fs, ensureCalls, fetches, returnedOK,
                   lastEnsure, boot, inflight, last>>

\* The process is started again: the module is imported afresh (line 24), the
\* files stay.
Restart ==
    /\ phase \in {"failed", "stopped"}
    /\ ~inflight.active
    /\ boot.pid < MaxProcesses
    /\ phase' = "not_started"
    /\ classifier' = None
    /\ boot' = NewBoot(boot.pid + 1)
    /\ inflight' = Idle
    /\ last' = NoObs
    /\ UNCHANGED <<host, fs, ensureCalls, fetches, returnedOK, lastEnsure>>

\* predict up to its await (156-198).
PredictBegin(req) ==
    /\ RequestsAccepted
    /\ ~inflight.active
    /\ LET check == PredictChecks(classifier, req) IN
       CASE check = "unloaded" ->
              /\ last' = Obs("predict", req, FALSE, FALSE, FALSE, NoProbs, 0,
                             503, "Model not loaded", NoResult)
              /\ inflight' = inflight
         [] check = "bad_type" ->
              /\ last' = Obs("predict", req, TRUE, FALSE, FALSE, NoProbs,
                             classifier.confidence_threshold,
                             400, "Invalid file type", NoResult)
              /\ inflight' = inflight
         [] OTHER ->
              /\ last' = Obs("predict", req, TRUE, FALSE, FALSE, NoProbs,
                             classifier.confidence_threshold, 0, "pending", NoResult)
              /\ inflight' = [active |-> TRUE, req |-> req]
    /\ UNCHANGED <<host, phase, classifier, fs, ensureCalls, fetches, returnedOK,
                   lastEnsure, boot>>

\* Mutant: a request that fails drops the model.
PredictResume_DropsModel(scorer) ==
    /\ inflight.active
    /\ last' = PredictBody(classifier, inflight.req, scorer)
    /\ inflight' = Idle
    /\ classifier' = IF last'.status = 200 THEN classifier ELSE None
    /\ UNCHANGED <<host, phase, fs, ensureCalls, fetches, returnedOK,
                   lastEnsure, boot>>

\* predict from the return of file.read() to its response (199-242).
PredictResume(scorer) ==
    /\ inflight.active
    /\ last' = PredictBody(classifier, inflight.req, scorer)
    /\ inflight' = Idle
    /\ UNCHANGED <<host, phase, classifier, fs, ensureCalls, fetches, returnedOK,
                   lastEnsure, boot>>

\* GET /health (134-142)
health_check ==
    /\ RequestsAccepted
    /\ last' = IF classifier = None
               THEN Obs("health", NoRequest, FALSE, FALSE, FALSE, NoProbs, 0,
                        503, "Model not loaded", NoResult)
               ELSE Obs("health", NoRequest, TRUE, FALSE, FALSE, NoProbs,
                        classifier.confidence_threshold, 200, "healthy", NoResult)
    /\ UNCHANGED <<host, phase, classifier, fs, ensureCalls, fetches, returnedOK,
                   lastEnsure, boot, inflight>>

\* GET /info (145-153)
model_info ==
    /\ RequestsAccepted
    /\ last' = IF classifier = None
               THEN Obs("info", NoRequest, FALSE, FALSE, FALSE, NoProbs, 0,
                        503, "Model not loaded", NoResult)
               ELSE Obs("info", NoRequest, TRUE, FALSE, FALSE, NoProbs,
                        classifier.confidence_threshold, 200, "model_info", NoResult)
    /\ UNCHANGED <<host, phase, classifier, fs, ensureCalls, fetches, returnedOK,
                   lastEnsure, boot, inflight>>

\* GET / (119-131)
root ==
    /\ RequestsAccepted
    /\ last' = Obs("root", NoRequest, classifier # None, FALSE, FALSE, NoProbs,
                   classifier.confidence_threshold, 200, "api_info", NoResult)
    /\ UNCHANGED <<host, phase, classifier, fs, ensureCalls, fetches, returnedOK,
                   lastEnsure, boot, inflight>>

Next ==
    \/ \E env \in ThresholdEnvs, fo \in FetchOutcomes, lo \in LoadOutcomes :
          lifespan(env, fo, lo)
    \/ Shutdown
    \/ Restart
    \/ \E req \in Requests : PredictBegin(req)
    \/ \E scorer \in ScorerOutcomes : PredictResume(scorer)
    \/ health_check
    \/ model_info
    \/ root

Spec == Init /\ [][Next]_vars

SpecHarness == InitHarness /\ [][Next]_vars

\* ------------------------------------------------------------------ claims

\* A step in which the predict handler is entered.
PredictEntered == last' # last /\ last'.endpoint = "predict" /\ ~inflight.active

\* C1: a predict request that arrives while the classifier is None is
\* answered 503 "Model not loaded" whatever it carries: no image is opened, no
\* inference is run, no result is returned, and the request does not go on to
\* read its body.
C1_PredictUnloadedIs503 ==
    [][(classifier = None /\ PredictEntered) =>
          /\ last'.status = 503
          /\ last'.detail = "Model not loaded"
          /\ ~last'.opened
          /\ ~last'.inferred
          /\ last'.result = NoResult
          /\ ~inflight'.active]_vars

\* A predict request with an allowed type and a valid image was refused
\* because the classifier is None.
C1_Witness ==
    /\ classifier = None
    /\ last.endpoint = "predict"
    /\ last.status = 503
    /\ last.req.content_type = "image/jpeg"
    /\ last.req.kind = "valid"
    /\ last.req.size = max_size

\* C2: the classifier is set only by a lifespan whose download returned
\* normally and whose model load then succeeded, from a complete file; a
\* failed download is followed by no model load; after either failure the
\* lifespan has raised, the classifier is None and no request was handled.
C2_LoadedOnlyIfBothSucceed ==
    /\ classifier # None =>
          /\ boot.config = "ok" /\ boot.ensure = "ok" /\ boot.load = "ok"
          /\ lastEnsure.called /\ ~lastEnsure.raised
          /\ fs = "complete"
          /\ phase \in {"serving", "stopped"}
    /\ boot.load # "none" => boot.ensure = "ok"
    /\ boot.ensure = "raised" =>
          /\ boot.load = "none"
          /\ lastEnsure.raised
          /\ classifier = None /\ phase = "failed"
    /\ boot.load = "raised" => (classifier = None /\ phase = "failed")
    /\ classifier = None => (last = NoObs /\ ~inflight.active)

\* The download fetched the file and the model load then failed.
C2_Witness ==
    /\ phase = "failed"
    /\ boot.ensure = "ok"
    /\ boot.load = "raised"
    /\ lastEnsure.network
    /\ classifier = None

\* C3: within one process a set classifier is never changed by any step (same
\* handle, same threshold), and a handler step leaves the service accepting
\* requests.
C3_LoadedStaysLoaded ==
    [][(classifier # None /\ boot'.pid = boot.pid) =>
          /\ classifier' = classifier
          /\ (last' # last \/ inflight' # inflight) =>
                (phase' = phase /\ RequestsAccepted')]_vars

\* A request failed with 500 on a loaded service, which is still loaded and
\* serving.
C3_Witness ==
    /\ classifier # None
    /\ phase = "serving"
    /\ last.endpoint = "predict"
    /\ last.status = 500

\* C4 as stated: two calls of download_model_from_gcs with the same path make
\* at most one network fetch, the second making none and leaving the file alone.
C4_Original ==
    lastEnsure.nth >= 2 =>
        /\ fetches <= 1
        /\ ~lastEnsure.network
        /\ lastEnsure.after = lastEnsure.before

\* C4 amended: a call made after an earlier call returned normally finds the
\* file, makes no network fetch, does not raise and leaves the file as it
\* was; a call fetches only when it finds no file, so only when no earlier
\* call has returned normally.
C4_NoFetchAfterSuccess ==
    /\ (lastEnsure.called /\ lastEnsure.priorOK) =>
          /\ lastEnsure.before # "absent"
          /\ ~lastEnsure.network
          /\ ~lastEnsure.raised
          /\ lastEnsure.after = lastEnsure.before
    /\ (lastEnsure.called /\ lastEnsure.network) =>
          (lastEnsure.before = "absent" /\ ~lastEnsure.priorOK)

\* The first call fetched the file, the second found it.
C4_Witness ==
    /\ lastEnsure.nth = 2
    /\ lastEnsure.priorOK
    /\ fetches = 1
    /\ ~lastEnsure.network

\* C5 as stated: after a call of download_model_from_gcs that raised there is
\* no file at the path, and no call takes the cache-hit path on a partial file.
C5_NoPartialFileOnFailure ==
    /\ (lastEnsure.called /\ lastEnsure.raised) =>
          (lastEnsure.after = "absent" /\ fs = "absent")
    /\ (lastEnsure.called /\ ~lastEnsure.network /\ ~lastEnsure.raised) =>
          lastEnsure.before # "partial"

\* C6: when download_model_from_gcs has returned normally, by the cache-hit
\* path or after a fetch, a file is at the path.
C6_FileExistsOnReturn ==
    (lastEnsure.called /\ ~lastEnsure.raised) =>
        (lastEnsure.after # "absent" /\ fs # "absent")

\* A call found no file, fetched it and returned normally.
C6_Witness ==
    /\ lastEnsure.called
    /\ ~lastEnsure.raised
    /\ lastEnsure.before = "absent"
    /\ lastEnsure.network
    /\ fs = "complete"

\* "other" has the maximum probability and no label before it in the
\* priority order ties with it.
OtherIsArgMax(probs) ==
    \A l \in LabelSet \ {"other"} : probs[l] < probs["other"]

\* C7: in every prediction returned, threshold_applied is true exactly when
\* every probability is strictly below the threshold and the argmax label is
\* "other"; it is false for a bird, plane or superman argmax and for a
\* maximum equal to the threshold.
C7_ThresholdAppliedIff ==
    (last.endpoint = "predict" /\ last.status = 200) =>
        /\ last.result.threshold_applied =
              (/\ \A l \in LabelSet : last.probs[l] < last.threshold
               /\ OtherIsArgMax(last.probs))
        /\ last.result.predicted_class # "other" => ~last.result.threshold_applied
        /\ (\E l \in LabelSet : last.probs[l] >= last.threshold) =>
              ~last.result.threshold_applied

\* A prediction of "other" below the threshold, flagged.
C7_Witness ==
    /\ last.endpoint = "predict"
    /\ last.status = 200
    /\ last.result.predicted_class = "other"
    /\ last.result.threshold_applied
    /\ last.threshold = DefaultThreshold

\* C8 as stated, for the requests the content-type and size checks let
\* through: on a loaded service a request whose bytes are no decodable image
\* is answered 400 "Invalid image file".
C8_UndecodableIs400 ==
    (/\ last.endpoint = "predict"
     /\ last.loaded
     /\ last.status # 0
     /\ last.req.kind # "valid"
     /\ last.req.content_type \in allowed_content_types
     /\ last.req.size <= max_size) =>
        (last.status = 400 /\ last.detail = "Invalid image file")

\* C9: on a loaded service a request with a content type outside the allowed
\* list is answered 400 "Invalid file type", a request of an allowed type
\* whose body is over 10 MB is answered 413, and for neither is the image
\* opened or predict_from_image called.
C9_TypeAndSizeBeforeCore ==
    (last.endpoint = "predict" /\ last.loaded /\ last.status # 0) =>
        /\ last.req.content_type \notin allowed_content_types =>
              /\ last.status = 400
              /\ last.detail = "Invalid file type"
              /\ ~last.opened /\ ~last.inferred
        /\ (/\ last.req.content_type \in allowed_content_types
            /\ last.req.size > max_size) =>
              /\ last.status = 413
              /\ ~last.opened /\ ~last.inferred
        /\ last.inferred =>
              (/\ last.req.content_type \in allowed_content_types
               /\ last.req.size <= max_size)

\* An oversized image of an allowed type was answered 413.
C9_Witness ==
    /\ last.endpoint = "predict"
    /\ last.loaded
    /\ last.status = 413
    /\ last.req.kind = "valid"

\* C10: under uvicorn the lifespan runs at most once in a process and assigns
\* the classifier at most once; whenever a handler has been entered or a
\* request is in flight, the lifespan has run once and its download and model
\* load have completed.
C10_LoadOnceBeforeRequests ==
    /\ boot.runs <= 1
    /\ boot.assigns <= 1
    /\ (last # NoObs \/ inflight.active) =>
          /\ boot.runs = 1
          /\ boot.ensure = "ok" /\ boot.load = "ok"
          /\ phase \in {"serving", "stopped"}
    /\ phase = "serving" => (boot.runs = 1 /\ boot.assigns = 1)

\* A prediction served by the second process, after its own load.
C10_Witness ==
    /\ boot.pid = 2
    /\ boot.runs = 1
    /\ last.endpoint = "predict"
    /\ last.status = 200

====
